---------------------------- MODULE Spec2Model ----------------------------
(***************************************************************************)
(* Zoomin (src/Zoomin/main.cpp): a screen magnifier.  Three execution      *)
(* contexts share global state without a common lock:                      *)
(*   - the main thread: main()'s loop (ProcessFrame, RenderCurrentFrame,   *)
(*     glfwPollEvents, the visibility toggle, the sleep) and its cleanup;  *)
(*   - the capture callback OnFrameArrived, run by the free-threaded       *)
(*     frame pool whenever a frame arrives;                                *)
(*   - the keyboard hook thread (KeyboardHookThread/LowLevelKeyboardProc). *)
(* Each statement group that touches shared state is one step of its       *)
(* thread; the threads' steps interleave freely.                           *)
(*                                                                         *)
(* Floats are modelled on a fixed-point grid: a zoom factor z is the       *)
(* integer z * ZoomScale, a tick duration is a whole number of             *)
(* milliseconds, and a float operation rounds to the nearest grid point.   *)
(* Textures are identified by small positive integers; 0 is a null ComPtr. *)
(***************************************************************************)
EXTENDS Integers, Sequences, FiniteSets

VARIABLES
    \* ---- main thread
    mpc,                        \* position of the main thread
    cleanupIdx,                 \* next entry of Cleanup to execute (lines 1057-1074)
    closePosted,                \* the OS has posted a close request to the overlay window
    shouldClose,                \* glfwWindowShouldClose(g_Window)
    \* ---- globals of main.cpp
    g_Running,                  \* line 74
    g_WindowVisible,            \* line 114
    g_WindowToggleRequest,      \* line 115
    windowShown,                \* visibility of the GLFW window (glfwShowWindow/glfwHideWindow)
    g_CurrentZoom,              \* line 94
    g_TargetZoom,               \* line 95
    cbZoom,                     \* magnificationFactor held by g_ConstantBuffer
    g_CaptureTextures,          \* line 70: slot -> texture id (0 = null)
    texSize,                    \* texture id -> size it was created with (0 = no such texture)
    texContent,                 \* texture id -> the image it holds (0 = no complete image)
    g_CurrentCaptureTexture,    \* line 71
    g_ScreenWidth,              \* lines 76-77 (width and height as one size)
    g_FrameArrived,             \* line 59
    g_FrameShaderResourceView,  \* line 86: texture id the view was created from (0 = null)
    live,                       \* the other GPU objects main's globals still hold
    subscribed,                 \* the FrameArrived handler is registered (lines 512, 961)
    \* ---- capture callback
    cpc,                        \* position of the OnFrameArrived invocation
    nextTexture,                \* its local nextTexture (line 365)
    frameSize,                  \* its local frameContentSize (line 355)
    \* ---- hook thread
    hpc,                        \* position of KeyboardHookThread
    \* ---- history (written, never read by the program)
    drawTex,                    \* texture behind the view bound by the draw in progress
    releaseLog,                 \* the release operations of main's cleanup, in order
    assertCount,                \* assertions of the toggle flag since it was last clear
    flipsForBatch,              \* flips of g_WindowVisible since the flag was last raised from clear
    seenAsserts,                \* assertCount when line 1030 last read the flag raised
    handled,                    \* seenAsserts and flipsForBatch when line 1040 last ran
    prevZoom,                   \* g_CurrentZoom when ProcessFrame was last entered
    lastDt,                     \* the tick duration ProcessFrame last measured
    lastHeld,                   \* the trigger as ProcessFrame last read it
    stableTicks,                \* consecutive ProcessFrame calls entered with current = target, same trigger
    heldSoFar,                  \* every ProcessFrame call so far found the trigger held
    unserved,                   \* a toggle was asserted after the main loop last read the flag
    handledOdd,                 \* the main loop has executed line 1031 an odd number of times
    presented,                  \* what the last draw presented: << >> (nothing) or << image, factor >>
    publishedSince,             \* OnFrameArrived has published since the last draw completed
    lastRender,                 \* how the last RenderCurrentFrame call ended ("Rendering": not yet)
    pfThisTick,                 \* ProcessFrame calls in the current iteration of the main loop
    cbLog,                      \* what the current OnFrameArrived invocation has done so far
    \* ---- main's initialisation (lines 983-1016)
    debugBuild,                 \* the program was compiled with _DEBUG (line 544)
    deviceAttempts,             \* the D3D11CreateDevice calls InitializeDirectX made, in order
    setupLog,                   \* the initialisation functions that have succeeded, in order
    exit,                       \* << >> while main runs, then << its return value >>
    \* ---- one pixel-shader invocation (psCode, lines 686-723)
    psUv,                       \* input.texCoord of the pixel
    psFactor,                   \* magnificationFactor
    psSampleUv,                 \* zoomedCoord
    psColor,                    \* what the invocation returned
    psPrev,                     \* factor and zoomedCoord of the invocation before, same pixel
    \* ---- the main loop's locals
    renderIdx,                  \* the index RenderCurrentFrame loaded for line 839 (0 outside it)
    pacing,                     \* << frameDuration, requested sleep >> (ns) of the iteration that
                                \* just ended; << >> once the next one has begun
    \* ---- history of the capture callback
    cbEntry,                    \* << >>, or the published state at the entry of the running invocation
    firstPublish                \* << >>, or << the index line 405 stored first >>

vars == << mpc, cleanupIdx, closePosted, shouldClose, g_Running, g_WindowVisible,
           g_WindowToggleRequest, windowShown, g_CurrentZoom, g_TargetZoom, cbZoom,
           g_CaptureTextures, texSize, g_CurrentCaptureTexture, g_ScreenWidth,
           g_FrameArrived, g_FrameShaderResourceView, live, subscribed,
           cpc, nextTexture, frameSize, hpc,
           drawTex, releaseLog, assertCount, flipsForBatch, seenAsserts, handled, unserved,
           handledOdd, prevZoom, lastDt, lastHeld, stableTicks, heldSoFar,
           texContent, presented, publishedSince, lastRender, pfThisTick, cbLog,
           debugBuild, deviceAttempts, setupLog, exit,
           psUv, psFactor, psSampleUv, psColor, psPrev, renderIdx, pacing,
           cbEntry, firstPublish >>

mainVars    == << mpc, cleanupIdx, shouldClose >>
envVars     == << closePosted >>
toggleVars  == << g_WindowVisible, g_WindowToggleRequest, windowShown,
                  assertCount, flipsForBatch, seenAsserts, handled, unserved, handledOdd >>
zoomVars    == << g_CurrentZoom, g_TargetZoom, cbZoom, prevZoom, lastDt, lastHeld,
                  stableTicks, heldSoFar >>
relayVars   == << g_CaptureTextures, texSize, texContent, g_CurrentCaptureTexture,
                  g_ScreenWidth, g_FrameArrived >>
cbVars      == << cpc, nextTexture, frameSize >>
gpuVars     == << g_FrameShaderResourceView, live, releaseLog, drawTex >>
outVars     == << presented, publishedSince >>
setupVars   == << debugBuild, deviceAttempts, setupLog, exit >>
loopVars    == << renderIdx, pacing >>
entryVars   == << cbEntry, firstPublish >>
psVars      == << psUv, psFactor, psSampleUv, psColor, psPrev >>

-----------------------------------------------------------------------------
(* Bounds of the model *)

\* Frame sizes the capture source can deliver are 1..MaxSize.
MaxSize == 2
\* Tick durations are 0..MaxDt milliseconds.
MaxDt == 6
\* Grid points per unit of zoom.
ZoomScale == 20
\* The history counters saturate at CountCap.
CountCap == 3
\* The images a captured frame can carry are 1..MaxImage.
MaxImage == 2
\* Grid points per half unit of texture coordinate.
UvHalf == 4

(* Program constants *)

\* g_CaptureTextures[2], line 70
NumSlots == 2
\* ZOOM_SMOOTHING_FACTOR = 0.2f per millisecond, i.e. 1/SmoothDen, line 46
SmoothDen == 5
\* DEFAULT_ZOOM = 1.0f, line 44
DEFAULT_ZOOM == 1 * ZoomScale
\* ZOOMED_MAGNIFICATION = 2.0f, line 45
ZOOMED_MAGNIFICATION == 2 * ZoomScale

Sizes == 1..MaxSize
Images == 1..MaxImage
Slots == 0..(NumSlots - 1)
\* At most NumSlots + 1 textures are alive at once: one per slot and one kept
\* alive by the shader resource view.
TexIds == 1..(NumSlots + 1)
\* The size InitializeCapture measured (lines 438-479) and the frame pool was created with.
InitSize == 1

\* Texture coordinates: 0.0 is 0, 1.0 is UvScale, the centre 0.5 is Center.
UvScale == 2 * UvHalf
Center == UvHalf
Uvs == 0..UvScale
\* The magnification factors a pixel-shader invocation is given: every grid
\* point from 1/ZoomScale to 2.0.
Factors == 1..ZOOMED_MAGNIFICATION

\* Tick durations and sleeps are whole nanoseconds.
targetFrameTime == 8333000
SleepCap == 1
\* What a tick may have taken: nothing, half the target, one nanosecond less
\* than the target, the target, more than the target.
FrameDurations == {0, targetFrameTime \div 2, targetFrameTime - 1, targetFrameTime,
                   targetFrameTime + 1}

Min(a, b) == IF a <= b THEN a ELSE b
Sat(n) == Min(n, CountCap)


-----------------------------------------------------------------------------
(* Pure helpers *)

\* std::min(duration_cast<nanoseconds>(targetFrameTime - frameDuration),
\* nanoseconds(1)), lines 1048-1050: the duration handed to sleep_for.
SleepTime(frameDuration) == Min(targetFrameTime - frameDuration, SleepCap)

\* Mutant: the loop does not test g_Running.
LoopIgnoresRunning(running, close) == ~close

\* Mutant: the loop gives up once a RenderCurrentFrame call has failed.
LoopStopsAfterFailure(running, close) ==
    running /\ ~close /\ lastRender \in { "None", "Presented" }

\* while (g_Running && !glfwWindowShouldClose(g_Window)), line 1023
LoopContinues(running, close) == running /\ ~close

\* Mutant: a hidden overlay skips ProcessFrame.
FirstOfTickWhenVisible(visible, pending) == IF visible THEN "ProcessFrame" ELSE "PollEvents"

\* The loop body begins with ProcessFrame() (line 1026), whatever
\* g_WindowVisible and g_WindowToggleRequest hold.
FirstOfTick(visible, pending) == "ProcessFrame"

\* Mutant: the callback writes the slot that is published.
SameTextureIndex(cur) == cur

\* Mutant: the target slot is always slot 0.
FirstTextureIndex(cur) == 0

\* int nextTexture = (g_CurrentCaptureTexture + 1) % 2;
NextTextureIndex(cur) == (cur + 1) % NumSlots

\* !g_CaptureTextures[nextTexture] || frameContentSize != (g_ScreenWidth, g_ScreenHeight)
NeedsRecreate(tex, size, screen) == tex = 0 \/ size # screen

\* A texture object stays alive while a slot or the shader resource view refers to it.
Referenced(id, slots, srv) == id # 0 /\ (srv = id \/ \E s \in Slots : slots[s] = id)

\* The sizes of the textures still alive once the references are `slots` and `srv`.
SizesAfter(ts, slots, srv) == [i \in TexIds |-> IF Referenced(i, slots, srv) THEN ts[i] ELSE 0]

\* The identity CreateTexture2D gives a new texture: one no live texture has.
FreshTex(slots, srv) ==
    CHOOSE i \in TexIds : /\ ~Referenced(i, slots, srv)
                          /\ \A j \in TexIds : ~Referenced(j, slots, srv) => i <= j

\* float targetZoom = (GetAsyncKeyState(VK_RBUTTON) & 0x8000) ? ZOOMED_MAGNIFICATION : DEFAULT_ZOOM;
\* Mutant: the trigger is read inverted.
TargetZoomInverted(held) == IF held THEN DEFAULT_ZOOM ELSE ZOOMED_MAGNIFICATION

TargetZoom(held) == IF held THEN ZOOMED_MAGNIFICATION ELSE DEFAULT_ZOOM

\* Mutant: the smoothing factor is not capped at 1.
SmoothNumUncapped(dt) == dt

\* float smoothFactor = std::min(1.0f, dt_ms * ZOOM_SMOOTHING_FACTOR); as a numerator over SmoothDen
SmoothNum(dt) == Min(SmoothDen, dt)

\* n / d rounded to the nearest grid point
RoundDiv(n, d) == (2 * n + d) \div (2 * d)

\* Mutant: the step is twice as long.
NewZoomDoubleStep(cur, target, dt) ==
    cur + RoundDiv((target - cur) * SmoothNum(dt) * 2, SmoothDen)

\* Mutant: the step is taken from DEFAULT_ZOOM instead of the current zoom.
NewZoomFromDefault(cur, target, dt) ==
    cur + RoundDiv((target - DEFAULT_ZOOM) * SmoothNum(dt), SmoothDen)

\* float newZoom = currentZoom + (targetZoom - currentZoom) * smoothFactor;
NewZoom(cur, target, dt) == cur + RoundDiv((target - cur) * SmoothNum(dt), SmoothDen)

\* A float division n / d, rounded to the nearest grid point, ties away from zero.
FloatDiv(n, d) == IF n >= 0 THEN RoundDiv(n, d) ELSE 0 - RoundDiv(0 - n, d)

\* Mutant: the direction is multiplied by the factor.
ZoomedCoordTimes(uv, factor) ==
    << Center + FloatDiv((uv[1] - Center) * factor, ZoomScale),
       Center + FloatDiv((uv[2] - Center) * factor, ZoomScale) >>

\* psCode lines 702-711: dir = texCoord - center; dir = dir / magnificationFactor;
\* zoomedCoord = center + dir.  The factor f is the integer f * ZoomScale.
ZoomedCoord(uv, factor) ==
    << Center + FloatDiv((uv[1] - Center) * ZoomScale, factor),
       Center + FloatDiv((uv[2] - Center) * ZoomScale, factor) >>

\* Mutant: the bounds are exclusive.
InTextureExclusive(p) == 0 < p[1] /\ p[1] < UvScale /\ 0 < p[2] /\ p[2] < UvScale

\* psCode lines 714-715: zoomedCoord.x >= 0.0 && zoomedCoord.x <= 1.0 && (same for y)
InTexture(p) == 0 <= p[1] /\ p[1] <= UvScale /\ 0 <= p[2] /\ p[2] <= UvScale

\* Mutant: a handled toggle request always shows the window.
ForcedVisible(visible) == TRUE

\* g_WindowVisible = !g_WindowVisible;   (line 1031)
ToggledVisible(visible) == ~visible

\* g_WindowToggleRequest = true;   (line 150)
RaisedToggleRequest(old) == TRUE

\* Mutant: the flag is not cleared after it was handled.
KeptToggleRequest(old) == old

\* g_WindowToggleRequest = false;  (line 1040)
ClearedToggleRequest(old) == FALSE

\* Mutant: the device is released before the immediate context.
CleanupDeviceFirst ==
    << "ClearState", "VertexShader", "PixelShader", "InputLayout", "VertexBuffer",
       "ConstantBuffer", "SamplerState", "SRV", "RTV", "RenderTarget",
       "Context1", "Device", "Context", "SwapChain",
       "CaptureTexture0", "CaptureTexture1" >>

\* main's cleanup, lines 1057-1074, in program order
Cleanup ==
    << "ClearState", "VertexShader", "PixelShader", "InputLayout", "VertexBuffer",
       "ConstantBuffer", "SamplerState", "SRV", "RTV", "RenderTarget",
       "Context1", "Context", "Device", "SwapChain",
       "CaptureTexture0", "CaptureTexture1" >>

\* The GPU objects InitializeDirectX and CreateShaders leave in main's globals
\* (the view and the slot textures have variables of their own).
InitialObjects ==
    { "VertexShader", "PixelShader", "InputLayout", "VertexBuffer", "ConstantBuffer",
      "SamplerState", "RTV", "RenderTarget", "Context1", "Context", "Device", "SwapChain" }

\* main's initialisation, lines 986-1014, in program order
SetupOrder ==
    << "InitializeGLFW", "CreateThread", "InitializeDirectX", "InitializeCapture",
       "CreateShaders" >>

\* Mutant: main goes on after a failed initialisation call.
IgnoreSetupResult(ok, next) == next

\* if (!InitializeX()) { ...; return -1; }: where main continues after an
\* initialisation call (lines 986-1014).
AfterSetup(ok, next) == IF ok THEN next ELSE "Returned"

\* Mutant: no WARP attempt.
DeviceAttemptsNoWarp(debug, hw, hwNoDebug, warp) ==
    IF hw THEN << << "HardwareConfigured", TRUE >> >>
    ELSE IF debug
    THEN << << "HardwareConfigured", FALSE >>, << "HardwareNoDebug", hwNoDebug >> >>
    ELSE << << "HardwareConfigured", FALSE >> >>

\* The D3D11CreateDevice calls of InitializeDirectX (lines 558-587), each with
\* its result.  debug: the build defines _DEBUG, so the configured flags hold
\* D3D11_CREATE_DEVICE_DEBUG (lines 543-546); hw, hwNoDebug, warp: whether the
\* call with those arguments succeeds.  The retry without the debug flag is
\* made only when the flag was set (line 572).
DeviceAttempts(debug, hw, hwNoDebug, warp) ==
    IF hw THEN << << "HardwareConfigured", TRUE >> >>
    ELSE IF debug
    THEN IF hwNoDebug
         THEN << << "HardwareConfigured", FALSE >>, << "HardwareNoDebug", TRUE >> >>
         ELSE << << "HardwareConfigured", FALSE >>, << "HardwareNoDebug", FALSE >>,
                 << "Warp", warp >> >>
    ELSE << << "HardwareConfigured", FALSE >>, << "Warp", warp >> >>

\* The objects InitializeDirectX creates after the device (lines 609-658).
DirectXResources == { "RenderTarget", "RTV", "SamplerState", "SwapChain" }

\* The objects CreateShaders creates (lines 664-828).
ShaderObjects ==
    { "VertexShader", "PixelShader", "InputLayout", "VertexBuffer", "ConstantBuffer" }

\* A call through a global ComPtr that main may be resetting at the same time
\* (no lock orders the two): with the object still held the call goes through;
\* once main has reset the pointer the callee faults on the null pointer, or it
\* still read the old pointer and the call goes through.
CallOutcomes(obj) == IF obj \in live THEN {"ok"} ELSE {"ok", "fault"}

\* An access violation ends the process: no thread takes another step.
Crash ==
    /\ mpc' = "Crashed"
    /\ cpc' = "Crashed"
    /\ hpc' = "Crashed"

-----------------------------------------------------------------------------
(* Initial states *)

\* What is the same before and after main's initialisation: the globals'
\* initialisers (lines 59-115) and empty histories.
InitCommon ==
    /\ cleanupIdx = 1
    /\ closePosted = FALSE
    /\ shouldClose = FALSE
    /\ g_Running = TRUE
    /\ g_WindowVisible = FALSE
    /\ g_WindowToggleRequest = FALSE
    /\ windowShown = FALSE
    /\ g_CurrentZoom = DEFAULT_ZOOM
    /\ g_TargetZoom = DEFAULT_ZOOM
    /\ cbZoom = DEFAULT_ZOOM
    /\ g_CaptureTextures = [s \in Slots |-> 0]
    /\ texSize = [i \in TexIds |-> 0]
    /\ texContent = [i \in TexIds |-> 0]
    /\ g_CurrentCaptureTexture = 0
    /\ g_FrameArrived = FALSE
    /\ g_FrameShaderResourceView = 0
    /\ cpc = "Idle"
    /\ nextTexture = 0
    /\ frameSize = InitSize
    /\ drawTex = 0
    /\ releaseLog = << >>
    /\ assertCount = 0
    /\ flipsForBatch = 0
    /\ seenAsserts = 0
    /\ handled = [asserts |-> 0, flips |-> 0]
    /\ unserved = FALSE
    /\ handledOdd = FALSE
    /\ prevZoom = DEFAULT_ZOOM
    /\ lastDt = 0
    /\ lastHeld = FALSE
    /\ stableTicks = 0
    /\ heldSoFar = TRUE
    /\ presented = << >>
    /\ publishedSince = FALSE
    /\ lastRender = "None"
    /\ pfThisTick = 0
    /\ cbLog = << >>
    /\ exit = << >>
    /\ psFactor = DEFAULT_ZOOM
    /\ psSampleUv = << 0, 0 >>
    /\ psColor = "None"
    /\ psPrev = << >>
    /\ renderIdx = 0
    /\ pacing = << >>
    /\ cbEntry = << >>
    /\ firstPublish = << >>

\* main's initialisation has succeeded (line 1016), in a release build whose
\* first D3D11CreateDevice call succeeded: the hook thread has been created,
\* the FrameArrived handler is registered, the GPU objects exist.
SetupDone ==
    /\ mpc = "LoopCond"
    /\ hpc = "Install"
    /\ subscribed = TRUE
    /\ live = InitialObjects
    /\ g_ScreenWidth = InitSize
    /\ debugBuild = FALSE
    /\ deviceAttempts = << << "HardwareConfigured", TRUE >> >>
    /\ setupLog = SetupOrder

\* State after main's initialisation (lines 983-1020)
Init ==
    /\ InitCommon
    /\ SetupDone
    /\ psUv = << 0, 0 >>

\* main is entered (line 981): nothing is initialised; the build is a debug
\* or a release build.
InitSetup ==
    /\ InitCommon
    /\ mpc = "InitializeGLFW"
    /\ hpc = "NotCreated"
    /\ subscribed = FALSE
    /\ live = {}
    /\ g_ScreenWidth = 0
    /\ debugBuild \in BOOLEAN
    /\ deviceAttempts = << >>
    /\ setupLog = << >>
    /\ psUv = << 0, 0 >>

-----------------------------------------------------------------------------
(* Main thread: main's initialisation, lines 983-1016 *)

\* The end of an initialisation call: on success its name is logged; on
\* failure main returns -1 and the process, with its threads, is over.
SetupReturn(ok, name) ==
    /\ setupLog' = IF ok THEN Append(setupLog, name) ELSE setupLog
    /\ exit' = IF mpc' = "Returned" THEN << -1 >> ELSE exit
    /\ cpc' = IF mpc' = "Returned" THEN "Ended" ELSE cpc

\* if (!InitializeGLFW()) return -1;  lines 986-988.  InitializeGLFW takes the
\* monitor's size (lines 185-186) and creates the hidden window.
SetupInitializeGLFW ==
    /\ mpc = "InitializeGLFW"
    /\ \E ok \in BOOLEAN :
          /\ mpc' = AfterSetup(ok, "CreateThread")
          /\ g_ScreenWidth' = IF ok THEN InitSize ELSE g_ScreenWidth
          /\ SetupReturn(ok, "InitializeGLFW")
    /\ UNCHANGED << cleanupIdx, shouldClose, g_Running, hpc, subscribed >>
    /\ UNCHANGED << g_CaptureTextures, texSize, texContent, g_CurrentCaptureTexture,
                    g_FrameArrived, nextTexture, frameSize >>
    /\ UNCHANGED << envVars, toggleVars, zoomVars, gpuVars, outVars, psVars, loopVars, entryVars >>
    /\ UNCHANGED << lastRender, pfThisTick, cbLog, debugBuild, deviceAttempts >>

\* CreateThread(KeyboardHookThread), lines 991-996.
SetupCreateThread ==
    /\ mpc = "CreateThread"
    /\ \E ok \in BOOLEAN :
          /\ mpc' = AfterSetup(ok, "InitializeDirectX")
          /\ hpc' = IF ok THEN "Install" ELSE hpc
          /\ SetupReturn(ok, "CreateThread")
    /\ UNCHANGED << cleanupIdx, shouldClose, g_Running, subscribed >>
    /\ UNCHANGED << relayVars, nextTexture, frameSize >>
    /\ UNCHANGED << envVars, toggleVars, zoomVars, gpuVars, outVars, psVars, loopVars, entryVars >>
    /\ UNCHANGED << lastRender, pfThisTick, cbLog, debugBuild, deviceAttempts >>

\* InitializeDirectX, lines 537-593: the device creation chain.  When the last
\* call failed the function returns false and main returns -1 (lines 999-1002).
SetupCreateDevice ==
    /\ mpc = "InitializeDirectX"
    /\ \E hw \in BOOLEAN, hwNoDebug \in BOOLEAN, warp \in BOOLEAN :
          LET attempts == DeviceAttempts(debugBuild, hw, hwNoDebug, warp)
              created  == attempts[Len(attempts)][2]
          IN  /\ deviceAttempts' = attempts
              /\ live' = IF created THEN { "Device", "Context", "Context1" } ELSE live
              /\ mpc' = IF created THEN "DirectXResources" ELSE "Returned"
              /\ exit' = IF created THEN exit ELSE << -1 >>
              /\ hpc' = IF created THEN hpc ELSE "Ended"
    /\ UNCHANGED << cleanupIdx, shouldClose, g_Running, subscribed, setupLog, debugBuild >>
    /\ UNCHANGED << relayVars, cbVars >>
    /\ UNCHANGED << envVars, toggleVars, zoomVars, outVars, psVars, loopVars, entryVars >>
    /\ UNCHANGED << g_FrameShaderResourceView, releaseLog, drawTex >>
    /\ UNCHANGED << lastRender, pfThisTick, cbLog >>

\* InitializeDirectX, lines 595-660: render target, its view, the sampler and
\* the swap chain; a failed creation returns false.
SetupDirectXResources ==
    /\ mpc = "DirectXResources"
    /\ \E ok \in BOOLEAN :
          /\ mpc' = AfterSetup(ok, "InitializeCapture")
          /\ live' = IF ok THEN live \cup DirectXResources ELSE live
          /\ SetupReturn(ok, "InitializeDirectX")
    /\ hpc' = IF mpc' = "Returned" THEN "Ended" ELSE hpc
    /\ UNCHANGED << cleanupIdx, shouldClose, g_Running, subscribed >>
    /\ UNCHANGED << relayVars, nextTexture, frameSize >>
    /\ UNCHANGED << envVars, toggleVars, zoomVars, outVars, psVars, loopVars, entryVars >>
    /\ UNCHANGED << g_FrameShaderResourceView, releaseLog, drawTex >>
    /\ UNCHANGED << lastRender, pfThisTick, cbLog, debugBuild, deviceAttempts >>

\* if (!InitializeCapture()) { glfwTerminate(); return -1; }  lines 1005-1008.
\* InitializeCapture measures the capture size (lines 438-479), registers
\* OnFrameArrived (line 512) and starts the capture (line 520).
SetupInitializeCapture ==
    /\ mpc = "InitializeCapture"
    /\ \E ok \in BOOLEAN :
          /\ mpc' = AfterSetup(ok, "CreateShaders")
          /\ subscribed' = ok
          /\ g_ScreenWidth' = IF ok THEN InitSize ELSE g_ScreenWidth
          /\ SetupReturn(ok, "InitializeCapture")
    /\ hpc' = IF mpc' = "Returned" THEN "Ended" ELSE hpc
    /\ UNCHANGED << cleanupIdx, shouldClose, g_Running >>
    /\ UNCHANGED << g_CaptureTextures, texSize, texContent, g_CurrentCaptureTexture,
                    g_FrameArrived, nextTexture, frameSize >>
    /\ UNCHANGED << envVars, toggleVars, zoomVars, gpuVars, outVars, psVars, loopVars, entryVars >>
    /\ UNCHANGED << lastRender, pfThisTick, cbLog, debugBuild, deviceAttempts >>

\* if (!CreateShaders()) { glfwTerminate(); return -1; }  lines 1011-1014.
\* OnFrameArrived may already be running.
SetupCreateShaders ==
    /\ mpc = "CreateShaders"
    /\ \E ok \in BOOLEAN :
          /\ mpc' = AfterSetup(ok, "LoopCond")
          /\ live' = IF ok THEN live \cup ShaderObjects ELSE live
          /\ SetupReturn(ok, "CreateShaders")
    /\ hpc' = IF mpc' = "Returned" THEN "Ended" ELSE hpc
    /\ UNCHANGED << cleanupIdx, shouldClose, g_Running, subscribed >>
    /\ UNCHANGED << relayVars, nextTexture, frameSize >>
    /\ UNCHANGED << envVars, toggleVars, zoomVars, outVars, psVars, loopVars, entryVars >>
    /\ UNCHANGED << g_FrameShaderResourceView, releaseLog, drawTex >>
    /\ UNCHANGED << lastRender, pfThisTick, cbLog, debugBuild, deviceAttempts >>

-----------------------------------------------------------------------------
(* Main thread: the loop of main(), lines 1023-1054 *)

\* while (g_Running && !glfwWindowShouldClose(g_Window))
MainLoopCond ==
    /\ mpc = "LoopCond"
    /\ mpc' = IF LoopContinues(g_Running, shouldClose)
              THEN FirstOfTick(g_WindowVisible, g_WindowToggleRequest)
              ELSE "Cleanup"
    /\ pfThisTick' = 0
    /\ pacing' = << >>
    /\ UNCHANGED << cleanupIdx, shouldClose, g_Running, hpc, renderIdx >>
    /\ UNCHANGED << envVars, toggleVars, zoomVars, relayVars, cbVars, gpuVars, subscribed >>
    /\ UNCHANGED << outVars, lastRender, cbLog, setupVars, psVars, entryVars >>

\* ProcessFrame, lines 922-953: the zoom update, the constant-buffer upload and
\* the call of RenderCurrentFrame.
\* held: the right mouse button is down; dt: milliseconds since the last call.
ProcessFrameZoom(Helds, Dts) ==
    /\ mpc = "ProcessFrame"
    /\ \E held \in Helds, dt \in Dts :
          /\ g_TargetZoom' = TargetZoom(held)
          /\ g_CurrentZoom' = NewZoom(g_CurrentZoom, TargetZoom(held), dt)
          /\ cbZoom' = NewZoom(g_CurrentZoom, TargetZoom(held), dt)
          /\ prevZoom' = g_CurrentZoom
          /\ lastDt' = dt
          /\ lastHeld' = held
          /\ stableTicks' = IF g_CurrentZoom # TargetZoom(held) THEN 0
                            ELSE IF TargetZoom(held) = g_TargetZoom THEN Sat(stableTicks + 1)
                            ELSE 1
          /\ heldSoFar' = (heldSoFar /\ held)
    /\ pfThisTick' = Sat(pfThisTick + 1)
    /\ lastRender' = "Rendering"
    /\ mpc' = "Render832"
    /\ UNCHANGED << cleanupIdx, shouldClose, g_Running, hpc >>
    /\ UNCHANGED << envVars, toggleVars, relayVars, cbVars, gpuVars, subscribed >>
    /\ UNCHANGED << outVars, cbLog, setupVars, psVars, loopVars, entryVars >>

\* RenderCurrentFrame, lines 832-834: nothing to render before the first frame.
RenderCheckTexture ==
    /\ mpc = "Render832"
    /\ mpc' = IF g_CaptureTextures[g_CurrentCaptureTexture] = 0 THEN "PollEvents" ELSE "Render837"
    /\ lastRender' = IF g_CaptureTextures[g_CurrentCaptureTexture] = 0 THEN "NoFrame" ELSE lastRender
    /\ UNCHANGED << cleanupIdx, shouldClose, g_Running, hpc >>
    /\ UNCHANGED << envVars, toggleVars, zoomVars, relayVars, cbVars, gpuVars, subscribed >>
    /\ UNCHANGED << outVars, pfThisTick, cbLog, setupVars, psVars, loopVars, entryVars >>

\* RenderCurrentFrame, lines 837-839: the view is created only while it is
\* null; the main thread then loads g_CurrentCaptureTexture to index the slot
\* array for the GetDesc call.  It holds no lock, so that load and the later
\* load of the slot are two steps.
RenderCheckView ==
    /\ mpc = "Render837"
    /\ mpc' = IF g_FrameShaderResourceView # 0 THEN "Draw" ELSE "Render839"
    /\ renderIdx' = IF g_FrameShaderResourceView # 0 THEN renderIdx ELSE g_CurrentCaptureTexture
    /\ UNCHANGED << cleanupIdx, shouldClose, g_Running, hpc, pacing, entryVars >>
    /\ UNCHANGED << envVars, toggleVars, zoomVars, relayVars, cbVars, gpuVars, subscribed >>
    /\ UNCHANGED << outVars, lastRender, pfThisTick, cbLog, setupVars, psVars >>

\* RenderCurrentFrame, lines 839-857: GetDesc is called through the slot the
\* index selected, then the view is created from the slot published at that
\* moment; CreateShaderResourceView may fail.
RenderCreateView ==
    /\ mpc = "Render839"
    /\ IF g_CaptureTextures[renderIdx] = 0
       THEN \* ->GetDesc on a null slot (line 839)
            /\ Crash
            /\ UNCHANGED << g_FrameShaderResourceView, lastRender, renderIdx >>
       ELSE \E created \in { c \in BOOLEAN : c => g_CaptureTextures[g_CurrentCaptureTexture] # 0 } :
            /\ g_FrameShaderResourceView' =
                  IF created THEN g_CaptureTextures[g_CurrentCaptureTexture] ELSE 0
            /\ mpc' = IF created THEN "Draw" ELSE "PollEvents"
            /\ lastRender' = IF created THEN lastRender ELSE "NoView"
            /\ renderIdx' = 0
            /\ UNCHANGED << cpc, hpc >>
    /\ UNCHANGED << cleanupIdx, shouldClose, g_Running, nextTexture, frameSize >>
    /\ UNCHANGED << envVars, toggleVars, zoomVars, relayVars, subscribed >>
    /\ UNCHANGED << live, releaseLog, drawTex >>
    /\ UNCHANGED << outVars, pfThisTick, cbLog, setupVars, psVars, pacing, entryVars >>

\* RenderCurrentFrame, lines 859-901: bind g_FrameShaderResourceView and issue the draw.
RenderDraw ==
    /\ mpc = "Draw"
    /\ drawTex' = g_FrameShaderResourceView
    /\ mpc' = "Drawing"
    /\ UNCHANGED << cleanupIdx, shouldClose, g_Running, hpc >>
    /\ UNCHANGED << envVars, toggleVars, zoomVars, relayVars, cbVars, subscribed >>
    /\ UNCHANGED << g_FrameShaderResourceView, live, releaseLog >>
    /\ UNCHANGED << outVars, lastRender, pfThisTick, cbLog, setupVars, psVars, loopVars, entryVars >>

\* RenderCurrentFrame, lines 903-918: the draw has sampled its texture with the
\* uploaded factor.  GetBuffer may fail, and then nothing is copied or presented
\* (line 906); Present(0, DXGI_PRESENT_DO_NOT_WAIT) may fail, its result is
\* ignored (line 917).  Either way the function returns.
RenderPresent ==
    /\ mpc = "Drawing"
    /\ \E gotBuffer \in BOOLEAN, shown \in BOOLEAN :
          /\ presented' = IF gotBuffer /\ shown
                          THEN << texContent[drawTex], cbZoom >> ELSE << >>
          /\ lastRender' = IF ~gotBuffer THEN "NoBuffer"
                           ELSE IF ~shown THEN "NotPresented" ELSE "Presented"
    /\ publishedSince' = FALSE
    /\ drawTex' = 0
    /\ mpc' = "PollEvents"
    /\ UNCHANGED << cleanupIdx, shouldClose, g_Running, hpc >>
    /\ UNCHANGED << envVars, toggleVars, zoomVars, relayVars, cbVars, subscribed >>
    /\ UNCHANGED << g_FrameShaderResourceView, live, releaseLog >>
    /\ UNCHANGED << pfThisTick, cbLog, setupVars, psVars, loopVars, entryVars >>

\* glfwPollEvents(), line 1027: a posted close request sets the should-close flag.
MainPollEvents ==
    /\ mpc = "PollEvents"
    /\ shouldClose' = (shouldClose \/ closePosted)
    /\ mpc' = "ToggleCheck"
    /\ UNCHANGED << cleanupIdx, g_Running, hpc >>
    /\ UNCHANGED << envVars, toggleVars, zoomVars, relayVars, cbVars, gpuVars, subscribed >>
    /\ UNCHANGED << outVars, lastRender, pfThisTick, cbLog, setupVars, psVars, loopVars, entryVars >>

\* if (g_WindowToggleRequest), line 1030
MainToggleCheck ==
    /\ mpc = "ToggleCheck"
    /\ mpc' = IF g_WindowToggleRequest THEN "ToggleFlip" ELSE "Sleep"
    /\ unserved' = IF g_WindowToggleRequest THEN FALSE ELSE unserved
    /\ seenAsserts' = IF g_WindowToggleRequest THEN assertCount ELSE seenAsserts
    /\ UNCHANGED << cleanupIdx, shouldClose, g_Running, hpc >>
    /\ UNCHANGED << g_WindowVisible, g_WindowToggleRequest, windowShown,
                    assertCount, flipsForBatch, handled, handledOdd >>
    /\ UNCHANGED << envVars, zoomVars, relayVars, cbVars, gpuVars, subscribed >>
    /\ UNCHANGED << outVars, lastRender, pfThisTick, cbLog, setupVars, psVars, loopVars, entryVars >>

\* g_WindowVisible = !g_WindowVisible; glfwShowWindow / glfwHideWindow, lines 1031-1038
MainToggleFlip ==
    /\ mpc = "ToggleFlip"
    /\ g_WindowVisible' = ToggledVisible(g_WindowVisible)
    /\ windowShown' = g_WindowVisible'
    /\ handledOdd' = ~handledOdd
    /\ flipsForBatch' = Sat(flipsForBatch + 1)
    /\ mpc' = "ToggleClear"
    /\ UNCHANGED << cleanupIdx, shouldClose, g_Running, hpc >>
    /\ UNCHANGED << g_WindowToggleRequest, assertCount, seenAsserts, handled, unserved >>
    /\ UNCHANGED << envVars, zoomVars, relayVars, cbVars, gpuVars, subscribed >>
    /\ UNCHANGED << outVars, lastRender, pfThisTick, cbLog, setupVars, psVars, loopVars, entryVars >>

\* g_WindowToggleRequest = false;, line 1040
MainToggleClear ==
    /\ mpc = "ToggleClear"
    /\ g_WindowToggleRequest' = ClearedToggleRequest(g_WindowToggleRequest)
    /\ handled' = [asserts |-> seenAsserts, flips |-> flipsForBatch]
    /\ assertCount' = IF g_WindowToggleRequest' THEN assertCount ELSE 0
    /\ mpc' = "Sleep"
    /\ UNCHANGED << cleanupIdx, shouldClose, g_Running, hpc >>
    /\ UNCHANGED << g_WindowVisible, windowShown, flipsForBatch, seenAsserts, unserved,
                    handledOdd >>
    /\ UNCHANGED << envVars, zoomVars, relayVars, cbVars, gpuVars, subscribed >>
    /\ UNCHANGED << outVars, lastRender, pfThisTick, cbLog, setupVars, psVars, loopVars, entryVars >>

\* The frame pacing sleep, lines 1044-1053: frameDuration is what the tick took
\* (frameEnd - frameStart); sleep_for is called only after a tick shorter than
\* targetFrameTime.
MainSleepFor(Durations) ==
    /\ mpc = "Sleep"
    /\ \E frameDuration \in Durations :
          pacing' = << frameDuration,
                       IF frameDuration < targetFrameTime THEN SleepTime(frameDuration) ELSE 0 >>
    /\ mpc' = "LoopCond"
    /\ UNCHANGED << cleanupIdx, shouldClose, g_Running, hpc, renderIdx, entryVars >>
    /\ UNCHANGED << envVars, toggleVars, zoomVars, relayVars, cbVars, gpuVars, subscribed >>
    /\ UNCHANGED << outVars, lastRender, pfThisTick, cbLog, setupVars, psVars >>

\* The sleep after a tick of one typical duration.
MainSleep == MainSleepFor({targetFrameTime \div 2})

-----------------------------------------------------------------------------
(* Main thread: cleanup, lines 1056-1086 *)

\* The slot a cleanup entry resets (the loop of lines 1072-1074), or -1.
SlotOf(r) == IF r = "CaptureTexture0" THEN 0 ELSE IF r = "CaptureTexture1" THEN 1 ELSE -1

\* One statement of lines 1057-1074: ClearState, or the Reset of one global.
MainCleanupStep ==
    /\ mpc = "Cleanup"
    /\ LET r     == Cleanup[cleanupIdx]
           slots == [s \in Slots |-> IF s = SlotOf(r) THEN 0 ELSE g_CaptureTextures[s]]
           srv   == IF r = "SRV" THEN 0 ELSE g_FrameShaderResourceView
       IN  /\ releaseLog' = Append(releaseLog, r)
           /\ live' = live \ {r}
           /\ g_CaptureTextures' = slots
           /\ g_FrameShaderResourceView' = srv
           /\ texSize' = SizesAfter(texSize, slots, srv)
           /\ texContent' = SizesAfter(texContent, slots, srv)
    /\ IF cleanupIdx = Len(Cleanup)
       THEN mpc' = "CleanupCapture" /\ cleanupIdx' = cleanupIdx
       ELSE mpc' = mpc /\ cleanupIdx' = cleanupIdx + 1
    /\ UNCHANGED << shouldClose, g_Running, hpc, drawTex, subscribed >>
    /\ UNCHANGED << g_CurrentCaptureTexture, g_ScreenWidth, g_FrameArrived >>
    /\ UNCHANGED << envVars, toggleVars, zoomVars, cbVars >>
    /\ UNCHANGED << outVars, lastRender, pfThisTick, cbLog, setupVars, psVars, loopVars, entryVars >>

\* CleanupCapture() (lines 959-978, called at line 1076): the FrameArrived
\* handler is revoked, the slots are reset again; then the window is destroyed
\* (lines 1078-1079).
MainCleanupCapture ==
    /\ mpc = "CleanupCapture"
    /\ subscribed' = FALSE
    /\ g_CaptureTextures' = [s \in Slots |-> 0]
    /\ texSize' = SizesAfter(texSize, [s \in Slots |-> 0], g_FrameShaderResourceView)
    /\ texContent' = SizesAfter(texContent, [s \in Slots |-> 0], g_FrameShaderResourceView)
    /\ mpc' = "WaitHook"
    /\ UNCHANGED << cleanupIdx, shouldClose, g_Running, hpc >>
    /\ UNCHANGED << g_CurrentCaptureTexture, g_ScreenWidth, g_FrameArrived >>
    /\ UNCHANGED << envVars, toggleVars, zoomVars, cbVars, gpuVars >>
    /\ UNCHANGED << outVars, lastRender, pfThisTick, cbLog, setupVars, psVars, loopVars, entryVars >>

\* WaitForSingleObject(hHookThread, INFINITE) returns once the hook thread has
\* ended; main then returns 0 (lines 1081-1086).
MainWaitHook ==
    /\ mpc = "WaitHook"
    /\ hpc = "Ended"
    /\ mpc' = "Done"
    /\ exit' = << 0 >>
    /\ UNCHANGED << cleanupIdx, shouldClose, g_Running, hpc >>
    /\ UNCHANGED << envVars, toggleVars, zoomVars, relayVars, cbVars, gpuVars, subscribed >>
    /\ UNCHANGED << outVars, lastRender, pfThisTick, cbLog, debugBuild, deviceAttempts, setupLog, psVars, loopVars, entryVars >>

-----------------------------------------------------------------------------
(* Capture callback: OnFrameArrived, lines 348-414 *)

\* The frame pool invokes the handler; the lock_guard on g_CaptureMutex (line 349)
\* lets one invocation run at a time. TryGetNextFrame may give no frame (line 352).
FrameArrived(FrameSizes) ==
    /\ cpc = "Idle"
    /\ subscribed
    /\ \E size \in FrameSizes, got \in BOOLEAN :
          IF got
          THEN /\ frameSize' = size /\ cpc' = "GetTexture" /\ cbLog' = << >>
               /\ cbEntry' = [idx     |-> g_CurrentCaptureTexture,
                              arrived |-> g_FrameArrived,
                              tex     |-> g_CaptureTextures[g_CurrentCaptureTexture],
                              image   |-> IF g_CaptureTextures[g_CurrentCaptureTexture] = 0
                                          THEN 0
                                          ELSE texContent[g_CaptureTextures[g_CurrentCaptureTexture]]]
          ELSE UNCHANGED << frameSize, cpc, cbLog, cbEntry >>
    /\ UNCHANGED << mainVars, g_Running, hpc, nextTexture, subscribed, firstPublish >>
    /\ UNCHANGED << envVars, toggleVars, zoomVars, relayVars, gpuVars >>
    /\ UNCHANGED << outVars, lastRender, pfThisTick, setupVars, psVars, loopVars >>

\* Lines 357-370: the frame's texture interface (may fail or throw), the target
\* slot, and the test whether the slot texture must be (re)created.
CbGetTexture ==
    /\ cpc = "GetTexture"
    /\ \E ok \in BOOLEAN :
          IF ok
          THEN /\ nextTexture' = NextTextureIndex(g_CurrentCaptureTexture)
               /\ cpc' = IF NeedsRecreate(g_CaptureTextures[NextTextureIndex(g_CurrentCaptureTexture)],
                                          frameSize, g_ScreenWidth)
                         THEN "Reset" ELSE "Copy"
          ELSE /\ cpc' = "Idle"
               /\ UNCHANGED nextTexture
    /\ cbEntry' = IF cpc' = "Idle" THEN << >> ELSE cbEntry
    /\ UNCHANGED << mainVars, g_Running, hpc, frameSize, subscribed, firstPublish >>
    /\ UNCHANGED << envVars, toggleVars, zoomVars, relayVars, gpuVars >>
    /\ UNCHANGED << outVars, lastRender, pfThisTick, cbLog, setupVars, psVars, loopVars >>

\* Lines 373-392: adopt the frame's size and drop the slot's texture.
CbResetSlot ==
    /\ cpc = "Reset"
    /\ g_ScreenWidth' = frameSize
    /\ g_CaptureTextures' = [g_CaptureTextures EXCEPT ![nextTexture] = 0]
    /\ texSize' = SizesAfter(texSize, [g_CaptureTextures EXCEPT ![nextTexture] = 0],
                             g_FrameShaderResourceView)
    /\ texContent' = SizesAfter(texContent, [g_CaptureTextures EXCEPT ![nextTexture] = 0],
                                g_FrameShaderResourceView)
    /\ cpc' = "Create"
    /\ UNCHANGED << mainVars, g_Running, hpc, nextTexture, frameSize, subscribed >>
    /\ UNCHANGED << g_CurrentCaptureTexture, g_FrameArrived >>
    /\ UNCHANGED << envVars, toggleVars, zoomVars, gpuVars >>
    /\ UNCHANGED << outVars, lastRender, pfThisTick, cbLog, setupVars, psVars, loopVars, entryVars >>

\* Lines 393-398: g_D3DDevice->CreateTexture2D into the slot; on failure return.
CbCreateTexture ==
    /\ cpc = "Create"
    /\ \E outcome \in CallOutcomes("Device"), created \in BOOLEAN :
          IF outcome = "fault"
          THEN /\ Crash
               /\ UNCHANGED << g_CaptureTextures, texSize, texContent >>
          ELSE /\ IF created
                  THEN LET id == FreshTex(g_CaptureTextures, g_FrameShaderResourceView)
                       IN  /\ g_CaptureTextures' = [g_CaptureTextures EXCEPT ![nextTexture] = id]
                           /\ texSize' = [texSize EXCEPT ![id] = g_ScreenWidth]
                           /\ texContent' = [texContent EXCEPT ![id] = 0]
                           /\ cpc' = "Copy"
                  ELSE /\ cpc' = "Idle"
                       /\ UNCHANGED << g_CaptureTextures, texSize, texContent >>
               /\ UNCHANGED << mpc, hpc >>
    /\ cbEntry' = IF cpc' = "Idle" THEN << >> ELSE cbEntry
    /\ UNCHANGED << cleanupIdx, shouldClose, g_Running, nextTexture, frameSize, subscribed >>
    /\ UNCHANGED << g_CurrentCaptureTexture, g_ScreenWidth, g_FrameArrived, firstPublish >>
    /\ UNCHANGED << envVars, toggleVars, zoomVars, gpuVars >>
    /\ UNCHANGED << outVars, lastRender, pfThisTick, cbLog, setupVars, psVars, loopVars >>

\* Line 402: g_D3DContext->CopyResource(slot texture, frame texture) starts.
CbCopyBegin ==
    /\ cpc = "Copy"
    /\ \E outcome \in CallOutcomes("Context") :
          IF outcome = "fault" \/ g_CaptureTextures[nextTexture] = 0
          THEN /\ Crash
               /\ UNCHANGED << texContent, cbLog >>
          ELSE /\ cpc' = "Copying"
               /\ texContent' = [texContent EXCEPT ![g_CaptureTextures[nextTexture]] = 0]
               /\ cbLog' = Append(cbLog, "Copy")
               /\ UNCHANGED << mpc, hpc >>
    /\ UNCHANGED << cleanupIdx, shouldClose, g_Running, nextTexture, frameSize, subscribed >>
    /\ UNCHANGED << g_CaptureTextures, texSize, g_CurrentCaptureTexture, g_ScreenWidth,
                    g_FrameArrived >>
    /\ UNCHANGED << envVars, toggleVars, zoomVars, gpuVars >>
    /\ UNCHANGED << outVars, lastRender, pfThisTick, setupVars, psVars, loopVars, entryVars >>

\* Line 402: the copy into the slot texture is complete; the texture holds the
\* frame's image.  A slot that main's cleanup has reset meanwhile is left alone.
CbCopyEnd ==
    /\ cpc = "Copying"
    /\ \E image \in Images :
          texContent' = IF g_CaptureTextures[nextTexture] = 0 THEN texContent
                        ELSE [texContent EXCEPT ![g_CaptureTextures[nextTexture]] = image]
    /\ cpc' = "Publish"
    /\ UNCHANGED << mainVars, g_Running, hpc, nextTexture, frameSize, subscribed >>
    /\ UNCHANGED << g_CaptureTextures, texSize, g_CurrentCaptureTexture, g_ScreenWidth,
                    g_FrameArrived >>
    /\ UNCHANGED << envVars, toggleVars, zoomVars, gpuVars >>
    /\ UNCHANGED << outVars, lastRender, pfThisTick, cbLog, setupVars, psVars, loopVars, entryVars >>

\* Line 405: g_CurrentCaptureTexture = nextTexture;
CbPublish ==
    /\ cpc = "Publish"
    /\ g_CurrentCaptureTexture' = nextTexture
    /\ publishedSince' = TRUE
    /\ firstPublish' = IF firstPublish = << >> THEN << nextTexture >> ELSE firstPublish
    /\ cbLog' = Append(cbLog, "Publish")
    /\ cpc' = "Signal"
    /\ UNCHANGED << mainVars, g_Running, hpc, nextTexture, frameSize, subscribed >>
    /\ UNCHANGED << g_CaptureTextures, texSize, texContent, g_ScreenWidth, g_FrameArrived >>
    /\ UNCHANGED << envVars, toggleVars, zoomVars, gpuVars >>
    /\ UNCHANGED << presented, lastRender, pfThisTick, setupVars, psVars, loopVars, cbEntry >>

\* Line 408: g_FrameArrived = true; and return.
CbSignal ==
    /\ cpc = "Signal"
    /\ g_FrameArrived' = TRUE
    /\ cbLog' = Append(cbLog, "Signal")
    /\ cpc' = "Idle"
    /\ cbEntry' = << >>
    /\ UNCHANGED << mainVars, g_Running, hpc, nextTexture, frameSize, subscribed >>
    /\ UNCHANGED << g_CaptureTextures, texSize, texContent, g_ScreenWidth,
                    g_CurrentCaptureTexture, firstPublish >>
    /\ UNCHANGED << envVars, toggleVars, zoomVars, gpuVars >>
    /\ UNCHANGED << outVars, lastRender, pfThisTick, setupVars, psVars, loopVars >>

-----------------------------------------------------------------------------
(* Hook thread: KeyboardHookThread and LowLevelKeyboardProc, lines 132-175 *)

\* Lines 161-166: SetWindowsHookEx; on failure the thread returns at once.
HookInstall ==
    /\ hpc = "Install"
    /\ \E installed \in BOOLEAN : hpc' = IF installed THEN "Loop" ELSE "Ended"
    /\ UNCHANGED << mainVars, g_Running, subscribed >>
    /\ UNCHANGED << envVars, toggleVars, zoomVars, relayVars, cbVars, gpuVars >>
    /\ UNCHANGED << outVars, lastRender, pfThisTick, cbLog, setupVars, psVars, loopVars, entryVars >>

\* Lines 140-144: Shift+Esc. g_Running = false; PostQuitMessage(0);
KeyExit ==
    /\ hpc = "Loop"
    /\ g_Running' = FALSE
    /\ hpc' = "QuitPosted"
    /\ UNCHANGED << mainVars, subscribed >>
    /\ UNCHANGED << envVars, toggleVars, zoomVars, relayVars, cbVars, gpuVars >>
    /\ UNCHANGED << outVars, lastRender, pfThisTick, cbLog, setupVars, psVars, loopVars, entryVars >>

\* Lines 146-151: Numpad 8, not a repeat. g_WindowToggleRequest = true;
KeyToggle ==
    /\ hpc = "Loop"
    /\ g_WindowToggleRequest' = RaisedToggleRequest(g_WindowToggleRequest)
    /\ assertCount' = Sat(assertCount + 1)
    /\ flipsForBatch' = IF g_WindowToggleRequest THEN flipsForBatch ELSE 0
    /\ unserved' = TRUE
    /\ UNCHANGED << mainVars, g_Running, hpc, subscribed >>
    /\ UNCHANGED << g_WindowVisible, windowShown, seenAsserts, handled, handledOdd >>
    /\ UNCHANGED << envVars, zoomVars, relayVars, cbVars, gpuVars >>
    /\ UNCHANGED << outVars, lastRender, pfThisTick, cbLog, setupVars, psVars, loopVars, entryVars >>

\* Lines 168-175: GetMessage returns 0 for the posted WM_QUIT (or g_Running is
\* false); the loop ends, the hook is removed and the thread returns.
HookLoopExit ==
    /\ hpc = "QuitPosted"
    /\ hpc' = "Ended"
    /\ UNCHANGED << mainVars, g_Running, subscribed >>
    /\ UNCHANGED << envVars, toggleVars, zoomVars, relayVars, cbVars, gpuVars >>
    /\ UNCHANGED << outVars, lastRender, pfThisTick, cbLog, setupVars, psVars, loopVars, entryVars >>

-----------------------------------------------------------------------------
(* GPU: one invocation of the pixel shader, psCode main, lines 700-722 *)

\* The draw runs the shader for the pixel with texture coordinate psUv and the
\* factor in the constant buffer: it computes zoomedCoord and returns the texel
\* sampled there, or transparent black when zoomedCoord is outside the texture.
PixelShaderMain(Fs) ==
    /\ \E factor \in Fs :
          /\ psFactor' = factor
          /\ psSampleUv' = ZoomedCoord(psUv, factor)
          /\ psColor' = IF InTexture(ZoomedCoord(psUv, factor)) THEN "Texel" ELSE "Transparent"
    /\ psPrev' = IF psColor = "None" THEN << >> ELSE << psFactor, psSampleUv >>
    /\ UNCHANGED << mainVars, g_Running, hpc, subscribed, psUv >>
    /\ UNCHANGED << envVars, toggleVars, zoomVars, relayVars, cbVars, gpuVars >>
    /\ UNCHANGED << outVars, lastRender, pfThisTick, cbLog, setupVars, loopVars, entryVars >>

-----------------------------------------------------------------------------
(* Environment *)

\* The OS asks the overlay window to close (WM_CLOSE); GLFW records it when the
\* main thread next polls events.
WindowClose ==
    /\ ~closePosted
    /\ mpc \notin {"WaitHook", "Done", "Crashed"}
    /\ closePosted' = TRUE
    /\ UNCHANGED << mainVars, g_Running, hpc, subscribed >>
    /\ UNCHANGED << toggleVars, zoomVars, relayVars, cbVars, gpuVars >>
    /\ UNCHANGED << outVars, lastRender, pfThisTick, cbLog, setupVars, psVars, loopVars, entryVars >>

-----------------------------------------------------------------------------
(* Specifications *)

\* main's initialisation.
SetupStep ==
    \/ SetupInitializeGLFW
    \/ SetupCreateThread
    \/ SetupCreateDevice
    \/ SetupDirectXResources
    \/ SetupInitializeCapture
    \/ SetupCreateShaders

\* The steps of the main loop every tick takes.
MainLoopStep(Helds, Dts) ==
    \/ MainLoopCond
    \/ ProcessFrameZoom(Helds, Dts)
    \/ RenderCheckTexture
    \/ MainPollEvents
    \/ MainToggleCheck
    \/ MainSleep

\* The rest of RenderCurrentFrame, reached once a frame has been published.
RenderStep == RenderCheckView \/ RenderCreateView \/ RenderDraw \/ RenderPresent

\* The toggle handling, reached once the toggle flag has been raised.
ToggleStep == MainToggleFlip \/ MainToggleClear

\* main after its loop.
ShutdownStep == MainCleanupStep \/ MainCleanupCapture \/ MainWaitHook

\* OnFrameArrived after the frame pool has invoked it.
CallbackStep ==
    \/ CbGetTexture
    \/ CbResetSlot
    \/ CbCreateTexture
    \/ CbCopyBegin
    \/ CbCopyEnd
    \/ CbPublish
    \/ CbSignal

\* The hook thread's own steps.
HookStep == HookInstall \/ HookLoopExit

\* The whole program with every input.
Next ==
    \/ MainLoopStep(BOOLEAN, 0..MaxDt)
    \/ RenderStep
    \/ ToggleStep
    \/ ShutdownStep
    \/ FrameArrived(Sizes)
    \/ CallbackStep
    \/ HookStep
    \/ KeyExit
    \/ KeyToggle
    \/ WindowClose
    \/ PixelShaderMain(Factors)

Spec == Init /\ [][Next]_vars

\* Frame relay: frames of every size arrive while the main loop runs; no key
\* is pressed, the trigger is not held and every tick takes MaxDt.
NextRelay ==
    \/ MainLoopStep({FALSE}, {MaxDt})
    \/ RenderStep
    \/ FrameArrived(Sizes)
    \/ CallbackStep

SpecRelay == Init /\ [][NextRelay]_vars

\* Publication: frames of the initial size arrive while the main loop runs;
\* no key is pressed, the trigger is not held and every tick takes MaxDt.
NextPublish ==
    \/ MainLoopStep({FALSE}, {MaxDt})
    \/ RenderStep
    \/ FrameArrived({InitSize})
    \/ CallbackStep

SpecPublish == Init /\ [][NextPublish]_vars

\* Visibility toggle: Numpad 8 is pressed while the main loop runs; no frame
\* arrives, the trigger is not held.
NextToggle ==
    \/ MainLoopStep({FALSE}, {MaxDt})
    \/ ToggleStep
    \/ HookInstall
    \/ KeyToggle

SpecToggle == Init /\ [][NextToggle]_vars

\* Overlay: Numpad 8 is pressed while the main loop runs and the trigger is
\* pressed and released; a tick takes 1 ms or MaxDt; no frame arrives.
NextOverlay ==
    \/ MainLoopStep(BOOLEAN, {1, MaxDt})
    \/ ToggleStep
    \/ HookInstall
    \/ KeyToggle

SpecOverlay == Init /\ [][NextOverlay]_vars

\* Shutdown: Shift+Esc or a window close ends the main loop while frames of
\* the initial size keep arriving; the trigger is not held.
NextShutdown ==
    \/ MainLoopStep({FALSE}, {MaxDt})
    \/ RenderStep
    \/ ShutdownStep
    \/ FrameArrived({InitSize})
    \/ CallbackStep
    \/ HookStep
    \/ KeyExit
    \/ WindowClose

SpecShutdown == Init /\ [][NextShutdown]_vars

\* Exit: Numpad 8 and Shift+Esc are pressed while the main loop runs; no frame
\* arrives, the trigger is not held, the window is not closed.
NextExit ==
    \/ MainLoopStep({FALSE}, {MaxDt})
    \/ ToggleStep
    \/ ShutdownStep
    \/ HookStep
    \/ KeyExit
    \/ KeyToggle

SpecExit == Init /\ [][NextExit]_vars

\* Every thread that can take a step eventually takes one: the OS schedules
\* the main thread, the frame pool's callback and the hook thread.  Key
\* presses, frame arrivals and the window close are inputs and are not forced.
FairShutdown ==
    /\ SpecShutdown
    /\ WF_vars(MainLoopStep({FALSE}, {MaxDt}) \/ RenderStep \/ ShutdownStep)
    /\ WF_vars(CallbackStep)
    /\ WF_vars(HookStep)

\* Zoom controller: the trigger and the tick duration vary; no frame arrives,
\* no key is pressed.
NextZoom == MainLoopStep(BOOLEAN, 0..MaxDt)

SpecZoom == Init /\ [][NextZoom]_vars

\* Frame pacing: the trigger and the duration of each tick vary; no frame
\* arrives, no key is pressed.
NextPacing ==
    \/ MainLoopStep(BOOLEAN, 0..MaxDt)
    \/ MainSleepFor(FrameDurations)

SpecPacing == Init /\ [][NextPacing]_vars

\* Start-up: main initialises, each call succeeding or failing, in a debug or a
\* release build; then the main loop runs while frames of the initial size
\* arrive.  No key is pressed, the trigger is not held.
NextSetup ==
    \/ SetupStep
    \/ MainLoopStep({FALSE}, {MaxDt})
    \/ RenderStep
    \/ FrameArrived({InitSize})
    \/ CallbackStep
    \/ HookInstall

SpecSetup == InitSetup /\ [][NextSetup]_vars

\* Pixel shader: the shader is run for every pixel of the texture-coordinate
\* grid, again and again with every factor.
InitShader ==
    /\ InitCommon
    /\ SetupDone
    /\ psUv \in Uvs \X Uvs

NextShader == PixelShaderMain(Factors)

SpecShader == InitShader /\ [][NextShader]_vars

-----------------------------------------------------------------------------
(* Claims *)

\* The cleanup entry r has been executed, and its place in the cleanup.
Released(r) == \E i \in DOMAIN releaseLog : releaseLog[i] = r
Pos(r) == CHOOSE i \in DOMAIN releaseLog : releaseLog[i] = r
\* b is not released unless a was released earlier.
Before(a, b) == Released(b) => (Released(a) /\ Pos(a) < Pos(b))

Views == { "SRV", "RTV" }
SlotTextures == { "CaptureTexture0", "CaptureTexture1" }
Textures == { "RenderTarget" } \cup SlotTextures
Contexts == { "Context1", "Context" }

\* C1: at no instant is OnFrameArrived copying into the slot whose texture
\* backs the shader resource view that a draw in progress samples.
C1_WriterNeverOnSampledSlot ==
    ~ ( /\ cpc = "Copying"
        /\ mpc = "Drawing"
        /\ drawTex # 0
        /\ g_CaptureTextures[nextTexture] = drawTex )

\* C2: when the main loop's check (line 1030) finds the flag raised by two or
\* more assertions made since the flag was last clear, the handling it starts
\* (lines 1031-1040) has flipped g_WindowVisible exactly once for them.
C2_CoalescedToggleFlipsOnce == handled.asserts >= 2 => handled.flips = 1

C2_Witness ==
    /\ mpc = "Sleep"
    /\ handled.asserts >= 2
    /\ handled.flips = 1
    /\ ~g_WindowToggleRequest

\* C3: the main loop reads and clears the toggle flag in one atomic step, so no
\* assertion is lost: an assertion made after the main loop last read the flag
\* is still recorded in the flag.
C3_AtomicReadAndClear == unserved => g_WindowToggleRequest

\* C4: whenever RenderCurrentFrame binds the view and draws, the texture behind
\* the view is the slot published at that moment.
C4_DrawSamplesPublishedSlot ==
    [][ (mpc = "Draw" /\ mpc' = "Drawing")
            => g_FrameShaderResourceView = g_CaptureTextures[g_CurrentCaptureTexture] ]_vars

\* C5: whenever RenderCurrentFrame binds the view and draws, the texture behind
\* the view is still held by a slot of g_CaptureTextures (a recreated slot's
\* view was recreated too).
C5_ViewTextureStillHeld ==
    [][ (mpc = "Draw" /\ mpc' = "Drawing")
            => \E s \in Slots : g_CaptureTextures[s] = g_FrameShaderResourceView ]_vars

\* C6: OnFrameArrived never calls through g_D3DDevice or g_D3DContext, and never
\* copies into a slot of g_CaptureTextures, after main's cleanup has reset them.
C6_NoUseAfterRelease ==
    [][ /\ (cpc = "Create" /\ cpc' # cpc) => ~Released("Device")
        /\ (cpc = "Copy" /\ cpc' # cpc) =>
              /\ ~Released("Context")
              /\ ~Released(IF nextTexture = 0 THEN "CaptureTexture0" ELSE "CaptureTexture1") ]_vars

\* C7: once the hook thread has set g_Running to false, main's loop ends, the
\* cleanup runs, the join on the hook thread returns and main returns.
C7_ExitRequestTerminates == (~g_Running) ~> (mpc = "Done")

\* C8: when main waits for the hook thread after the window was closed with
\* g_Running still true, the program can go on without a key press: some
\* thread has a step to take until the wait has returned.
C8_JoinReturnsWithoutKeyPress ==
    (mpc = "WaitHook" /\ g_Running)
        => ENABLED (MainLoopStep({FALSE}, {MaxDt}) \/ RenderStep \/ ShutdownStep
                        \/ CallbackStep \/ HookStep)

\* C9, as stated: every view is released before every texture, every texture
\* before the contexts, the contexts before the device, the device before the
\* swap chain, and the context state is cleared before the device is released.
C9_StrictReverseOrder ==
    /\ \A v \in Views, t \in Textures : Before(v, t)
    /\ \A t \in Textures, c \in Contexts : Before(t, c)
    /\ \A c \in Contexts : Before(c, "Device")
    /\ Before("Device", "SwapChain")
    /\ Before("ClearState", "Device")

\* C9, amended: every view is released before every texture, the render-target
\* texture before the contexts, the contexts before the device, the device
\* before the swap chain, and the context state is cleared before the device
\* is released; the two capture slot textures are released after the swap chain.
C9_CleanupOrder ==
    /\ \A v \in Views, t \in Textures : Before(v, t)
    /\ \A c \in Contexts : Before("RenderTarget", c)
    /\ \A c \in Contexts : Before(c, "Device")
    /\ Before("Device", "SwapChain")
    /\ Before("ClearState", "Device")
    /\ \A t \in SlotTextures : Before("SwapChain", t)

C9_Witness ==
    /\ mpc = "Done"
    /\ \A r \in Views \cup Textures \cup Contexts \cup { "Device", "SwapChain", "ClearState" } :
          Released(r)

\* C10: a ProcessFrame call entered with g_CurrentZoom equal to the target the
\* trigger selects leaves g_CurrentZoom (and the uploaded factor) at that value,
\* whatever the tick duration, and so for every further such call.
C10_ZoomFixedPoint ==
    stableTicks >= 1 =>
        /\ g_CurrentZoom = prevZoom
        /\ g_CurrentZoom = g_TargetZoom
        /\ cbZoom = g_CurrentZoom

C10_Witness ==
    /\ mpc = "Render832"
    /\ stableTicks >= 2
    /\ g_TargetZoom = ZOOMED_MAGNIFICATION
    /\ lastDt > 0
    /\ lastDt < SmoothDen

\* C11: while every ProcessFrame call since the start (current = 1.0) has found
\* the trigger held (target = 2.0), each call, whatever its tick duration,
\* leaves g_CurrentZoom no smaller than it found it and no greater than the
\* target, and a call that finds it at the target leaves it there.
C11_MonotoneConvergence ==
    heldSoFar =>
        /\ prevZoom <= g_CurrentZoom
        /\ g_CurrentZoom <= ZOOMED_MAGNIFICATION
        /\ (prevZoom = ZOOMED_MAGNIFICATION => g_CurrentZoom = ZOOMED_MAGNIFICATION)

C11_Witness ==
    /\ mpc = "Render832"
    /\ heldSoFar
    /\ DEFAULT_ZOOM < prevZoom
    /\ prevZoom < g_CurrentZoom
    /\ g_CurrentZoom < ZOOMED_MAGNIFICATION
    /\ lastDt < SmoothDen

\* C12: when a tick presents its output and OnFrameArrived has published no
\* frame since the tick before completed its draw, the output presented is
\* identical to the output the tick before presented.
C12_FrozenFrameSameOutput ==
    [][ ( /\ mpc = "Drawing"
          /\ lastRender' = "Presented"
          /\ presented # << >>
          /\ ~publishedSince )
            => presented' = presented ]_vars

\* The squared distance of a texture coordinate from the centre.
Dist2(p) == (p[1] - Center) * (p[1] - Center) + (p[2] - Center) * (p[2] - Center)

C14_SamplesExactlyInBounds ==
    psColor # "None" =>
        LET inside == /\ psSampleUv[1] \in 0..UvScale
                      /\ psSampleUv[2] \in 0..UvScale
        IN  /\ inside => psColor = "Texel"
            /\ ~inside => psColor = "Transparent"

C14_Witness ==
    /\ psColor = "Transparent"
    /\ psFactor < DEFAULT_ZOOM
    /\ psSampleUv[1] > UvScale
    /\ psSampleUv[2] \in 0..UvScale

\* a is an initial segment of b.
IsPrefix(a, b) == Len(a) <= Len(b) /\ \A i \in 1..Len(a) : a[i] = b[i]

\* The positions of the main thread inside its loop.
LoopPcs == { "LoopCond", "ProcessFrame", "Render832", "Render837", "Render839", "Draw", "Drawing",
             "PollEvents", "ToggleCheck", "ToggleFlip", "ToggleClear", "Sleep" }

\* C15: the initialisation calls succeed in program order (InitializeGLFW, the
\* hook thread, InitializeDirectX, InitializeCapture, CreateShaders); main is
\* in its loop only after all of them have succeeded; and when one has failed
\* main has returned -1 and no ProcessFrame or RenderCurrentFrame call was made.
C15_SetupBeforeFirstTick ==
    /\ IsPrefix(setupLog, SetupOrder)
    /\ mpc \in LoopPcs => setupLog = SetupOrder
    /\ setupLog # SetupOrder =>
          /\ pfThisTick = 0
          /\ lastRender = "None"
          /\ presented = << >>
          /\ drawTex = 0
    /\ mpc = "Returned" => (exit = << -1 >> /\ setupLog # SetupOrder)
    /\ exit = << -1 >> => mpc = "Returned"

C15_Witness ==
    /\ mpc = "Returned"
    /\ exit = << -1 >>
    /\ setupLog = << "InitializeGLFW", "CreateThread", "InitializeDirectX",
                     "InitializeCapture" >>
    /\ cbLog # << >>

\* The drivers and flags of the D3D11CreateDevice calls made, in order.
AttemptNames == [i \in 1..Len(deviceAttempts) |-> deviceAttempts[i][1]]
\* The last D3D11CreateDevice call made succeeded.
LastAttemptOk == deviceAttempts[Len(deviceAttempts)][2]

\* C17, as stated: the calls made are an initial segment of hardware with the
\* configured flags, hardware without the debug layer, WARP; every call but
\* the last failed; a successful last call leaves a device; and device
\* creation is reported failed only after all three calls failed.
C17_ThreeAttempts ==
    deviceAttempts # << >> =>
        /\ IsPrefix(AttemptNames, << "HardwareConfigured", "HardwareNoDebug", "Warp" >>)
        /\ \A i \in 1..(Len(deviceAttempts) - 1) : ~deviceAttempts[i][2]
        /\ LastAttemptOk => "Device" \in live
        /\ ~LastAttemptOk => (mpc = "Returned" /\ Len(deviceAttempts) = 3)

\* C17, amended: the retry on hardware without the debug layer belongs to the
\* chain only when the configured flags hold the debug layer (a _DEBUG build);
\* otherwise the chain is hardware, then WARP.  The calls made are an initial
\* segment of the chain, every call but the last failed, a successful last
\* call leaves a device, and device creation is reported failed only after
\* every call of the chain failed.
C17_AttemptChain ==
    deviceAttempts # << >> =>
        LET chain == IF debugBuild
                     THEN << "HardwareConfigured", "HardwareNoDebug", "Warp" >>
                     ELSE << "HardwareConfigured", "Warp" >>
        IN  /\ IsPrefix(AttemptNames, chain)
            /\ \A i \in 1..(Len(deviceAttempts) - 1) : ~deviceAttempts[i][2]
            /\ LastAttemptOk => "Device" \in live
            /\ ~LastAttemptOk => (mpc = "Returned" /\ Len(deviceAttempts) = Len(chain))

C17_Witness ==
    /\ ~debugBuild
    /\ AttemptNames = << "HardwareConfigured", "Warp" >>
    /\ LastAttemptOk
    /\ mpc = "Drawing"

\* The ways a RenderCurrentFrame call ends without presenting: no frame yet,
\* the view could not be created, no back buffer, Present failed.
RenderFailures == { "NoFrame", "NoView", "NoBuffer", "NotPresented" }

\* C16: a RenderCurrentFrame call that fails returns to the main loop
\* (ProcessFrame returns, glfwPollEvents is next); the main thread leaves its
\* loop only at the loop condition, with g_Running false or the window
\* closed; and otherwise the loop condition starts the next tick, whatever
\* the last call's outcome.
C16_FailedTickKeepsLooping ==
    [][ /\ (lastRender = "Rendering" /\ lastRender' \in RenderFailures)
              => mpc' = "PollEvents"
        /\ (mpc \in LoopPcs /\ mpc' \notin LoopPcs)
              => (mpc = "LoopCond" /\ (~g_Running \/ shouldClose))
        /\ (mpc = "LoopCond" /\ mpc' # mpc /\ g_Running /\ ~shouldClose)
              => mpc' = "ProcessFrame" ]_vars

C16_Witness ==
    /\ mpc = "Render832"
    /\ lastRender = "Rendering"
    /\ presented = << >>
    /\ g_FrameShaderResourceView # 0
    /\ publishedSince = FALSE
    /\ g_Running

\* C18: in every iteration of the main loop ProcessFrame has run exactly once
\* when the loop reaches glfwPollEvents, the toggle handling and the sleep,
\* whether the overlay is visible or hidden and whether or not a toggle is
\* pending; and the toggle handling (lines 1030-1041) leaves the zoom state,
\* the published slot index and the capture textures as they are.
C18_ToggleOnlyChangesVisibility ==
    /\ [](mpc \in { "Render832", "PollEvents", "ToggleCheck", "ToggleFlip", "ToggleClear",
                     "Sleep" } => pfThisTick = 1)
    /\ [][ (mpc \in { "ToggleCheck", "ToggleFlip", "ToggleClear" } /\ mpc' # mpc)
              => UNCHANGED << g_CurrentZoom, g_TargetZoom, cbZoom, g_CurrentCaptureTexture,
                              g_CaptureTextures, texSize, texContent >> ]_vars

C18_Witness ==
    /\ mpc = "Sleep"
    /\ pfThisTick = 1
    /\ g_WindowVisible
    /\ handled.flips = 1
    /\ DEFAULT_ZOOM < g_CurrentZoom
    /\ g_CurrentZoom < ZOOMED_MAGNIFICATION

\* C19: every CopyResource that OnFrameArrived issues (line 402) has a
\* destination slot texture of the incoming frame's size.
C19_CopyDestinationMatchesFrame ==
    [][ (cpc = "Copy" /\ cpc' = "Copying")
            => texSize[g_CaptureTextures[nextTexture]] = frameSize ]_vars

\* C20: within one OnFrameArrived invocation the copy is issued into the slot
\* other than the published one, (g_CurrentCaptureTexture + 1) % 2; the index
\* is changed only after that copy was issued, and to that slot; and
\* g_FrameArrived is set only after the index was changed.
C20_PublishAfterCopy ==
    /\ [](IsPrefix(cbLog, << "Copy", "Publish", "Signal" >>))
    /\ [][ /\ (cpc = "Copy" /\ cpc' = "Copying")
                 => /\ nextTexture # g_CurrentCaptureTexture
                    /\ nextTexture = (g_CurrentCaptureTexture + 1) % NumSlots
           /\ g_CurrentCaptureTexture' # g_CurrentCaptureTexture
                 => /\ cbLog = << "Copy" >>
                    /\ g_CurrentCaptureTexture' = nextTexture
                    /\ g_CurrentCaptureTexture' = (g_CurrentCaptureTexture + 1) % NumSlots
           /\ (cpc = "Publish" /\ cpc' # cpc /\ cpc' # "Crashed")
                 => g_CurrentCaptureTexture' # g_CurrentCaptureTexture
           /\ (g_FrameArrived' /\ ~g_FrameArrived) => cbLog = << "Copy", "Publish" >>
           /\ (cpc = "Signal" /\ cpc' = "Idle")
                 => (g_FrameArrived' /\ cbLog = << "Copy", "Publish" >>) ]_vars

C20_Witness ==
    /\ cpc = "Idle"
    /\ cbLog = << "Copy", "Publish", "Signal" >>
    /\ g_CurrentCaptureTexture = 0
    /\ g_FrameArrived

\* C21: after a tick shorter than targetFrameTime the main loop asks to sleep
\* for the remainder, targetFrameTime minus the tick's duration; after a tick
\* that took at least targetFrameTime it does not sleep.
C21_SleepsForRemainder ==
    pacing # << >>
        => pacing[2] = IF pacing[1] < targetFrameTime
                       THEN targetFrameTime - pacing[1] ELSE 0

\* The smoothing law with a window of W milliseconds, for the last tick:
\* current + (target - current) * min(1, dt / W).
SmoothingLaw(W) ==
    g_CurrentZoom = prevZoom + RoundDiv((g_TargetZoom - prevZoom) * Min(W, lastDt), W)

\* The target follows the trigger and the uploaded factor is the new current.
TargetAndUpload ==
    /\ g_TargetZoom = IF lastHeld THEN ZOOMED_MAGNIFICATION ELSE DEFAULT_ZOOM
    /\ cbZoom = g_CurrentZoom

\* C22 as stated: each tick sets the target from the trigger, replaces current
\* by current + (target - current) * min(1, dt / smoothingWindow), uploads the
\* new current, and smoothingWindow is of the order of 100 ms (50 to 200 ms).
C22_WindowAbout100ms ==
    lastRender # "None" => (TargetAndUpload /\ \E W \in 50..200 : SmoothingLaw(W))

\* C22, amended: as above, with smoothingWindow = 5 ms, the reciprocal of
\* ZOOM_SMOOTHING_FACTOR = 0.2 per millisecond; no window of the order of
\* 100 ms fits a tick that moved the zoom.
C22_SmoothingLaw ==
    lastRender # "None"
        => /\ TargetAndUpload
           /\ SmoothingLaw(5)
           /\ g_CurrentZoom # prevZoom => \A W \in 50..200 : ~SmoothingLaw(W)

\* A tick of 2 ms with the trigger held moved the zoom from 1.0 to 1.4.
C22_Witness ==
    /\ lastRender # "None"
    /\ lastHeld
    /\ lastDt = 2
    /\ prevZoom = DEFAULT_ZOOM
    /\ g_CurrentZoom = DEFAULT_ZOOM + 8
    /\ cbZoom = g_CurrentZoom

\* C23: RenderCurrentFrame never dereferences an empty slot: in every
\* interleaving with OnFrameArrived, the slot it calls GetDesc through
\* (line 839) holds a texture.
C23_DereferencedSlotHoldsTexture ==
    [][ (mpc = "Render839" /\ mpc' # mpc) => g_CaptureTextures[renderIdx] # 0 ]_vars

\* C24: in every reachable state DEFAULT_ZOOM <= g_CurrentZoom <=
\* ZOOMED_MAGNIFICATION, whatever the trigger values and the tick durations
\* (dt >= 0); so the factor uploaded for the shader is never zero or below 1,
\* and for every uv of the unit square the sample coordinate stays inside it.
C24_ZoomWithinRange ==
    /\ DEFAULT_ZOOM <= g_CurrentZoom
    /\ g_CurrentZoom <= ZOOMED_MAGNIFICATION
    /\ cbZoom # 0
    /\ cbZoom >= 1 * ZoomScale
    /\ \A uv \in Uvs \X Uvs : InTexture(ZoomedCoord(uv, cbZoom))

\* The zoom is on its way down, strictly between the two limits, after a tick
\* of 0 ms left it where it was.
C24_Witness ==
    /\ lastRender # "None"
    /\ ~lastHeld
    /\ lastDt = 0
    /\ DEFAULT_ZOOM < g_CurrentZoom
    /\ g_CurrentZoom < ZOOMED_MAGNIFICATION
    /\ cbZoom = g_CurrentZoom
    /\ ZoomedCoord(<< 0, UvScale >>, cbZoom) # << 0, UvScale >>

\* Positions of main after its loop.
AfterLoopPcs == { "Cleanup", "CleanupCapture", "WaitHook", "Done" }

\* C25: g_Running starts true; it is written only by the hook thread and only
\* to false, so once false it stays false; and once the main loop has read it
\* false the loop is left for good: no ProcessFrame call, no toggle handling.
C25_RunningMonotone ==
    /\ g_Running = TRUE
    /\ [][ /\ g_Running' # g_Running
                 => (g_Running /\ ~g_Running' /\ hpc = "Loop" /\ hpc' # hpc /\ mpc' = mpc)
           /\ (mpc = "LoopCond" /\ ~g_Running /\ mpc' # mpc) => mpc' = "Cleanup"
           /\ mpc \in AfterLoopPcs
                 => /\ mpc' \in AfterLoopPcs
                    /\ pfThisTick' = pfThisTick
                    /\ g_WindowVisible' = g_WindowVisible
                    /\ windowShown' = windowShown
                    /\ g_WindowToggleRequest => g_WindowToggleRequest' ]_vars

\* main has returned after Shift+Esc while a toggle request was still pending.
C25_Witness ==
    /\ mpc = "Done"
    /\ hpc = "Ended"
    /\ ~g_Running
    /\ g_WindowToggleRequest
    /\ ~g_WindowVisible

\* The running OnFrameArrived invocation has executed line 405.
Published == \E k \in 1..Len(cbLog) : cbLog[k] = "Publish"

\* The published index, g_FrameArrived, and the published slot's texture and
\* image are what they were when the running invocation was entered.
AsAtEntry(idx, arrived, slots, content) ==
    /\ idx = cbEntry.idx
    /\ arrived = cbEntry.arrived
    /\ slots[idx] = cbEntry.tex
    /\ cbEntry.tex # 0 => content[cbEntry.tex] = cbEntry.image

\* C26: an OnFrameArrived invocation that does not complete the copy (the
\* texture interface cannot be obtained, or the slot texture cannot be
\* created) leaves g_CurrentCaptureTexture and g_FrameArrived as they were at
\* its entry and leaves the published slot's texture and its image untouched;
\* a completed invocation changes the index to the other slot, so the index is
\* always 0 or 1 and alternates; an invocation is entered only while none runs.
C26_IncompleteInvocationNoEffect ==
    /\ [](g_CurrentCaptureTexture \in {0, 1})
    /\ []((cbEntry # << >> /\ ~Published)
            => AsAtEntry(g_CurrentCaptureTexture, g_FrameArrived, g_CaptureTextures, texContent))
    /\ []((cbEntry # << >> /\ Published)
            => /\ g_CurrentCaptureTexture # cbEntry.idx
               /\ g_CurrentCaptureTexture = 1 - cbEntry.idx)
    /\ [][ /\ cbEntry' # cbEntry
                 => \/ cbEntry = << >> /\ cpc = "Idle" /\ cpc' = "GetTexture"
                    \/ cbEntry' = << >> /\ cpc # "Idle" /\ cpc' = "Idle"
           /\ (cpc # "Idle" /\ cpc' = "Idle")
                 => IF cbLog' = << "Copy", "Publish", "Signal" >>
                    THEN /\ g_CurrentCaptureTexture' = 1 - cbEntry.idx
                         /\ g_FrameArrived'
                    ELSE AsAtEntry(g_CurrentCaptureTexture', g_FrameArrived',
                                   g_CaptureTextures', texContent') ]_vars

\* An invocation entered after a frame had been published has returned
\* without copying: CreateTexture2D failed for the other slot.
C26_Witness ==
    /\ cpc = "Idle"
    /\ cbLog = << >>
    /\ g_FrameArrived
    /\ nextTexture # g_CurrentCaptureTexture
    /\ g_CaptureTextures[nextTexture] = 0
    /\ g_CaptureTextures[g_CurrentCaptureTexture] # 0

\* Positions of RenderCurrentFrame after its null check of line 832.
RenderingPcs == { "Render837", "Render839", "Draw", "Drawing" }

\* C27: before the first frame has been published every tick updates the zoom
\* state, but RenderCurrentFrame returns at line 833 without creating a view,
\* drawing or presenting; the first completed OnFrameArrived writes slot 1 and
\* publishes index 1; from then on the published slot always holds a texture.
C27_NothingRenderedBeforeFirstFrame ==
    /\ [](firstPublish = << >>
            => /\ g_CurrentCaptureTexture = 0
               /\ g_CaptureTextures[0] = 0
               /\ mpc \notin RenderingPcs
               /\ g_FrameShaderResourceView = 0
               /\ drawTex = 0
               /\ presented = << >>
               /\ lastRender \in { "None", "Rendering", "NoFrame" }
               /\ mpc \in { "PollEvents", "ToggleCheck", "Sleep" }
                     => /\ pfThisTick = 1
                        /\ lastRender = "NoFrame"
                        /\ g_TargetZoom = TargetZoom(lastHeld)
                        /\ g_CurrentZoom = NewZoom(prevZoom, g_TargetZoom, lastDt)
                        /\ cbZoom = g_CurrentZoom)
    /\ [](firstPublish # << >> => firstPublish = << 1 >>)
    /\ [](firstPublish # << >> => g_CaptureTextures[g_CurrentCaptureTexture] # 0)
    /\ [][ (firstPublish = << >> /\ firstPublish' # << >>)
              => /\ nextTexture = 1
                 /\ g_CaptureTextures[1] # 0
                 /\ texContent[g_CaptureTextures[1]] # 0
                 /\ g_CurrentCaptureTexture' = 1 ]_vars

\* A tick has ended at line 833 while the first invocation of OnFrameArrived
\* had already filled slot 1 but not yet published it.
C27_Witness ==
    /\ firstPublish = << >>
    /\ cpc = "Publish"
    /\ g_CaptureTextures[1] # 0
    /\ mpc = "PollEvents"
    /\ lastRender = "NoFrame"
    /\ pfThisTick = 1

\* C28: the overlay starts hidden; in every reachable state g_WindowVisible is
\* true exactly when the main loop has handled an odd number of toggle
\* requests; the window is shown or hidden in the step that flips
\* g_WindowVisible, and only the main loop, at line 1031, writes it.
C28_VisibleIffOddToggles ==
    /\ g_WindowVisible = FALSE
    /\ windowShown = FALSE
    /\ [](g_WindowVisible = handledOdd)
    /\ [](windowShown = g_WindowVisible)
    /\ [][ g_WindowVisible' # g_WindowVisible
              => /\ mpc = "ToggleFlip"
                 /\ mpc' = "ToggleClear"
                 /\ hpc' = hpc
                 /\ windowShown' = g_WindowVisible' ]_vars

\* The second toggle request has been handled: the overlay, shown by the
\* first, is hidden again and the request flag is about to be cleared.
C28_Witness ==
    /\ mpc = "ToggleClear"
    /\ ~handledOdd
    /\ ~g_WindowVisible
    /\ ~windowShown
    /\ flipsForBatch >= 1

=============================================================================
